---- MODULE Spec2Model ----
(***************************************************************************)
(* A model of sync_multi.py: the multi-task directory synchronizer.        *)
(*                                                                         *)
(*   SpecPass  one SyncTask from construction through its sync passes:     *)
(*             the walker thread of SyncTask.sync, the ThreadPoolExecutor  *)
(*             workers running _wrapped_copy / _wrapped_delete, and the    *)
(*             file trees they read and write.                             *)
(*   SpecLoad  the same pass over the configurations whose source and      *)
(*             target lists differ in length or are empty.                 *)
(*   SpecSync  the threads that call SyncTask.sync concurrently (watcher   *)
(*             handler threads, debounce timers, start) around the pass    *)
(*             lock and the pending flag.                                  *)
(*   SpecSup   supervise() and the worker process it spawns.               *)
(*   SpecWorker   one worker process: sync_worker(), the config watcher,   *)
(*             reload_config() and the signals the process receives.       *)
(*   SpecPassLive  SpecPass with the walker and the pool threads scheduled.*)
(*   SpecCrash the passes of a task in a worker that is killed and started *)
(*             again by the supervisor.                                    *)
(***************************************************************************)
EXTENDS Integers, Sequences, FiniteSets, TLC

VARIABLES
    \* ---- SpecPass: one task, its trees and its pass ----
    cfg,          \* the task's configuration (sources, targets, exclude, workers)
    task,         \* "new" | "ready" (constructed) | "rejected" (_validate raised)
    fs,           \* root -> relative path -> entry
    fs0,          \* fs as it was when the current pass started (history)
    tmps,         \* the NamedTemporaryFile files that exist in target directories
    wpc,          \* where the thread running sync() is
    pairIdx,      \* index into _pairs() of the pair being walked
    todo,         \* entries listed by rglob and not visited yet
    dirs,         \* subdirectories rglob has found and not listed yet
    held,         \* the work item the walker is about to submit (blocked on sem)
    sem,          \* permits left in the pass's Semaphore(workers * 2)
    queue,        \* the pool's FIFO work queue
    wk,           \* the calls the pool threads are running
    copyCount,    \* SyncTask._copy_count
    deleteCount,  \* SyncTask._delete_count
    dispatched,   \* the work items submitted in the current pass, in order (history)
    failed,       \* work items of the current pass that raised after their retries
    passNo,       \* completed passes
    errlog,       \* the ERROR records the task's logger took in the current pass
    \* ---- SpecSync: the threads that call sync() on one task ----
    lockHeld,     \* SyncTask._lock is held
    pending,      \* SyncTask._pending
    timerRef,     \* SyncTask._timer: the Timer the handle refers to, 0 for None
    pc,           \* thread -> where it is
    timersMade,   \* threading.Timer objects created so far
    events,       \* file-system events delivered so far
    pendingPaths, \* SyncTask._pending_paths: the events whose paths it holds
    owed,         \* an event was delivered during a pass and no pass began since (history)
    \* ---- SpecSup: supervise() and its worker process ----
    sup,          \* where the supervisor is
    child,        \* the worker process: "none" | "running" | "exited"
    exitcode,     \* p.exitcode of the last worker that exited
    slept,        \* seconds of the current time.sleep(RESTART_DELAY) that have passed
    spawns,       \* workers started so far
    journal,      \* what happened to the workers, in order (history)
    \* ---- SpecWorker: one worker process, sync_worker() and reload_config() ----
    wthr,         \* thread -> where it is: the main thread and the reload Timers
    wcode,        \* the worker's Process.exitcode: <<>> for None, else <<code>>
    observers,    \* the module-level list observers
    tasks,        \* the module-level list tasks
    ostate,       \* observer -> "new" | "running" | "stopped" | "joined"
    cfgMods,      \* modifications of config.json so far
    cfgSeen,      \* the modifications the config watcher has reported
    cfgRead,      \* the modification count of the config.json text read last
    lateMod,      \* the last modification made after the initial load returned (history)
    rhandle,      \* ConfigReloader._timer: the Timer it refers to, 0 for None
    ttimer,       \* task -> its debounce Timer: "none" | "waiting" | "fired"
    loads,        \* SyncTask objects constructed so far
    starting      \* thread -> the task whose start() it has run, 0 for none

walkVars == <<wpc, pairIdx, todo, dirs, held>>
countVars == <<copyCount, deleteCount>>
passVars == <<cfg, task, fs, fs0, tmps, walkVars, sem, queue, wk, countVars,
              dispatched, failed, passNo, errlog>>

syncVars == <<lockHeld, pending, timerRef, pc, timersMade, events, pendingPaths, owed>>
supVars == <<sup, child, exitcode, slept, spawns, journal>>
workVars == <<wthr, wcode, observers, tasks, ostate, cfgMods, cfgSeen, cfgRead,
              lateMod, rhandle, ttimer, loads, starting>>

vars == <<passVars, syncVars, supVars, workVars>>

(***************************************************************************)
(* Bounds of the model.                                                    *)
(***************************************************************************)
MaxPasses == 2
\* the trees a task is started on hold at most this many entries in all
MaxEntries == 2
\* modifications of config.json while one worker runs
MaxMods == 2
\* SyncTask objects one worker constructs in all
MaxLoads == 2

(***************************************************************************)
(* Program constants.                                                      *)
(***************************************************************************)
RetryTimes == 3        \* @retry(times=3, delay=0.3)
SemFactor  == 2        \* threading.Semaphore(self.workers * 2)

(***************************************************************************)
(* Paths.  A relative path is its POSIX form, a sequence of characters.    *)
(***************************************************************************)
PA   == <<"a">>
PD   == <<"d">>
PDB  == <<"d", "/", "b">>
RelPaths == {PA, PD, PDB}
ROOT == <<>>
\* tempfile.NamedTemporaryFile(dir=dst.parent): prefix "tmp" and random characters.
TmpName == <<"t", "m", "p", "_">>

SlashAt(p) == {i \in DOMAIN p : p[i] = "/"}
LastSlash(p) == IF SlashAt(p) = {} THEN 0
                ELSE CHOOSE i \in SlashAt(p) : \A j \in SlashAt(p) : j <= i
\* Path.parent, relative to the root
Parent(p) == IF LastSlash(p) = 0 THEN ROOT ELSE SubSeq(p, 1, LastSlash(p) - 1)
\* dir / name
Join(dir, name) == IF dir = ROOT THEN name ELSE dir \o <<"/">> \o name

(***************************************************************************)
(* fnmatch.fnmatch(rel, pat) on POSIX: "*" matches any run of characters   *)
(* ("/" included), "?" one character, anything else itself.                *)
(***************************************************************************)
RECURSIVE FnMatch(_, _)
FnMatch(s, pat) ==
    IF pat = <<>> THEN s = <<>>
    ELSE IF Head(pat) = "*"
         THEN FnMatch(s, Tail(pat)) \/ (s # <<>> /\ FnMatch(Tail(s), pat))
    ELSE IF s = <<>> THEN FALSE
    ELSE IF Head(pat) = "?" THEN FnMatch(Tail(s), Tail(pat))
    ELSE Head(s) = Head(pat) /\ FnMatch(Tail(s), Tail(pat))

\* any(fnmatch.fnmatch(rel, pat) for pat in self.exclude)
AnyMatch(rel, exclude) == \E i \in DOMAIN exclude : FnMatch(rel, exclude[i])

should_exclude_never(rel) == FALSE
\* SyncTask.should_exclude(path, base), on rel = path.relative_to(base).as_posix()
should_exclude(rel) == AnyMatch(rel, cfg.exclude)

\* the delete walk's own test: rel = dst.relative_to(t_base).as_posix(); any(fnmatch ...)
TargetExcluded(rel) == AnyMatch(rel, cfg.exclude)

(***************************************************************************)
(* File-system entries.                                                    *)
(***************************************************************************)
NoEnt == [kind |-> "none", data |-> <<>>, mtime |-> 0, text |-> ""]
DirEnt == [kind |-> "dir", data |-> <<>>, mtime |-> 0, text |-> ""]
FileEnt(c, m) == [kind |-> "file", data |-> c, mtime |-> m, text |-> ""]
LinkEnt(t, m) == [kind |-> "link", data |-> <<>>, mtime |-> m, text |-> t]

\* file contents, as the chunks shutil.copyfileobj moves one at a time
Bytes1 == <<1>>
Bytes2 == <<2>>
\* modification times: older than, equal to and newer than the source's; and
\* the clock when the worker writes a file
MOld == 1
MSrc == 2
MNew == 3
MNow == 4

\* what a symlink's text points at, outside the synchronized trees
Ext(t) == CASE t = "F" -> FileEnt(Bytes1, MSrc)
            [] t = "D" -> DirEnt
            [] OTHER   -> NoEnt

\* following symlinks, as Path.exists/is_file/is_dir/stat do
Follow(e) == IF e.kind = "link" THEN Ext(e.text) ELSE e
Exists(e) == Follow(e).kind # "none"
IsFile(e) == Follow(e).kind = "file"
IsDir(e) == Follow(e).kind = "dir"
IsSymlink(e) == e.kind = "link"
LExists(e) == e.kind # "none"
\* compute_hash: the digest of the bytes read through the path
Hash(e) == Follow(e).data

(***************************************************************************)
(* Task configuration.                                                     *)
(***************************************************************************)
Roots == {"s1", "s2", "t1", "t2", "t3"}

\* SyncTask._pairs
Pairs(sources, targets) ==
    IF Len(sources) = Len(targets)
    THEN [i \in 1..Len(sources) |-> <<sources[i], targets[i]>>]
    ELSE IF Len(sources) = 1
    THEN [i \in 1..Len(targets) |-> <<sources[1], targets[i]>>]
    ELSE [i \in 1..Len(sources) |-> <<sources[i], targets[1]>>]

pairs == Pairs(cfg.sources, cfg.targets)
SBase == pairs[pairIdx][1]
TBase == pairs[pairIdx][2]


(***************************************************************************)
(* Work items and pool threads.                                            *)
(***************************************************************************)
\* a temp file's unique name: the work item that created it and the attempt
NoTmp == <<0, 0>>
NoItem == [op |-> "none", s |-> "-", t |-> "-", rel |-> <<>>, tmp |-> NoTmp, seq |-> 0]
CopyItem(s, t, rel, n) ==
    [op |-> "copy", s |-> s, t |-> t, rel |-> rel, tmp |-> NoTmp, seq |-> n]
\* tmp # NoTmp: the path is the temp file of that name
DeleteItem(t, rel, tmp, n) ==
    [op |-> "delete", s |-> "-", t |-> t, rel |-> rel, tmp |-> tmp, seq |-> n]

WorkerChoices == {1, 2}

TopLevel == {p \in RelPaths : Parent(p) = ROOT}
ChildrenOf(dir) == {p \in RelPaths : Parent(p) = dir}
TmpsIn(t, dir) == {r \in tmps : r.t = t /\ r.dir = dir}
HasTmp(id) == \E r \in tmps : r.id = id
TmpOf(id) == CHOOSE r \in tmps : r.id = id

\* what one os.scandir(dir) of root r returns: the entries there, temp files included
Listing(r, dir) ==
    {[rel |-> p, tmp |-> NoTmp] : p \in {q \in ChildrenOf(dir) : LExists(fs[r][q])}}
    \cup {[rel |-> Join(dir, TmpName), tmp |-> x.id] : x \in TmpsIn(r, dir)}
\* the directories rglob descends into: entry.is_dir() and not entry.is_symlink()
SubDirs(r) == {p \in TopLevel : fs[r][p].kind = "dir"}
SubListing(r) == UNION {Listing(r, d) : d \in SubDirs(r)}

\* (s_base / rel).exists()
SrcExists(s, rel) == rel \in RelPaths /\ Exists(fs[s][rel])

\* the copy plan's tests of a source entry that no pool thread can change
\* (lines 218-219): src.is_file() and not self.should_exclude(src, s_base)
CopyCandidate(s, rel) == IsFile(fs[s][rel]) /\ ~should_exclude(rel)

\* the delete plan's test of a listed target entry (lines 236-241)
NeedDelete(s, rel) == ~TargetExcluded(rel) /\ ~SrcExists(s, rel)

\* s_base.rglob("*"), the source trees being at rest during a pass: every entry,
\* a directory's own entries before those of its subdirectories.  The entries the
\* loop body passes over without reading the target are left out.
SourceWalk(s) == {v \in Listing(s, ROOT) \cup SubListing(s) : CopyCandidate(s, v.rel)}
\* one directory of t_base.rglob("*"), listed when the walk gets there; the
\* entries the loop body passes over are left out
TargetListing(s, t, dir) == {v \in Listing(t, dir) : NeedDelete(s, v.rel)}

\* the steps of a pass leave the callers of sync() and the supervisor alone
PassOnly == UNCHANGED <<syncVars, supVars, workVars>>

(***************************************************************************)
(* SyncTask.__init__ and _validate.                                        *)
(***************************************************************************)
Construct ==
    /\ task = "new"
    /\ task' = IF cfg.sources # <<>> /\ cfg.targets # <<>> THEN "ready" ELSE "rejected"
    /\ UNCHANGED <<cfg, fs, fs0, tmps, walkVars, sem, queue, wk, countVars,
                   dispatched, failed, passNo, errlog>>
    /\ PassOnly

(***************************************************************************)
(* SyncTask.sync: the thread that walks the trees.                         *)
(***************************************************************************)
\* lock acquired: counters reset, Semaphore and pool created, first rglob started
StartPass ==
    /\ task = "ready" /\ wpc = "idle" /\ passNo < MaxPasses
    /\ copyCount' = 0 /\ deleteCount' = 0
    /\ sem' = cfg.workers * SemFactor
    /\ pairIdx' = 1
    /\ todo' = SourceWalk(pairs[1][1]) /\ dirs' = {}
    /\ wpc' = "src"
    /\ dispatched' = <<>> /\ failed' = {}
    /\ fs0' = fs
    /\ errlog' = {}
    /\ UNCHANGED <<cfg, task, fs, tmps, held, queue, wk, passNo>>
    /\ PassOnly

\* the copy plan's test of one source entry (lines 218-227)
NeedCopy(s, t, rel) ==
    LET src == fs[s][rel]
        dst == fs[t][rel]
    IN  /\ CopyCandidate(s, rel)
        /\ IF ~Exists(dst) THEN TRUE
           ELSE IF Follow(src).mtime > Follow(dst).mtime
                THEN IF IsDir(dst) THEN FALSE      \* compute_hash(dst) raises: continue
                     ELSE Hash(src) # Hash(dst)
                ELSE FALSE

\* the work item the walk makes of a listed entry, NoItem when it needs none
Planned(v) ==
    IF wpc = "src"
    THEN IF NeedCopy(SBase, TBase, v.rel)
         THEN CopyItem(SBase, TBase, v.rel, Len(dispatched) + 1) ELSE NoItem
    ELSE IF NeedDelete(SBase, v.rel)
         THEN DeleteItem(TBase, v.rel, v.tmp, Len(dispatched) + 1) ELSE NoItem

\* one entry of the walk: tested and, when it needs work and a permit is free,
\* submitted at once; with no permit free the walker blocks in sem.acquire()
Visit ==
    /\ wpc \in {"src", "tgtTop", "tgtSub"} /\ held = NoItem
    /\ \E v \in todo :
        \* a directory's own entries come before its subdirectories' entries
        /\ Parent(v.rel) = ROOT \/ \A u \in todo : Parent(u.rel) # ROOT
        /\ todo' = todo \ {v}
        /\ IF Planned(v) = NoItem \/ sem = 0
           THEN /\ held' = Planned(v)
                /\ UNCHANGED <<sem, queue, dispatched>>
           ELSE /\ sem' = sem - 1
                /\ queue' = Append(queue, Planned(v))
                /\ dispatched' = Append(dispatched, Planned(v))
                /\ held' = NoItem
    /\ UNCHANGED <<cfg, task, fs, fs0, tmps, wpc, pairIdx, dirs, wk, countVars, failed,
                   passNo, errlog>>
    /\ PassOnly

\* sem.acquire() returns; pool.submit(...)
Submit ==
    /\ held # NoItem /\ sem > 0
    /\ sem' = sem - 1
    /\ queue' = Append(queue, held)
    /\ dispatched' = Append(dispatched, held)
    /\ held' = NoItem
    /\ UNCHANGED <<cfg, task, fs, fs0, tmps, wpc, pairIdx, todo, dirs, wk, countVars,
                   failed, passNo, errlog>>
    /\ PassOnly

\* rglob moves on: from the source walk to the target root's own entries, from
\* those to the root's subdirectories (the root is listed once more to find
\* them), and after the last subdirectory to the next pair
Advance ==
    /\ todo = {} /\ dirs = {} /\ held = NoItem
    /\ wpc \in {"src", "tgtTop", "tgtSub"}
    /\ IF wpc = "src"
       THEN /\ todo' = TargetListing(SBase, TBase, ROOT) /\ dirs' = {}
            /\ wpc' = "tgtTop" /\ pairIdx' = pairIdx
       ELSE IF wpc = "tgtTop" /\ SubDirs(TBase) # {}
       THEN /\ todo' = {} /\ dirs' = SubDirs(TBase)
            /\ wpc' = "tgtSub" /\ pairIdx' = pairIdx
       ELSE IF pairIdx < Len(pairs)
       THEN /\ pairIdx' = pairIdx + 1
            /\ todo' = SourceWalk(pairs[pairIdx + 1][1]) /\ dirs' = {}
            /\ wpc' = "src"
       ELSE /\ pairIdx' = pairIdx /\ todo' = {} /\ dirs' = {} /\ wpc' = "join"
    /\ UNCHANGED <<cfg, task, fs, fs0, tmps, held, sem, queue, wk, countVars,
                   dispatched, failed, passNo, errlog>>
    /\ PassOnly

\* rglob lists a subdirectory of the target it has found.  One that is no longer
\* a directory makes os.scandir raise: the pathlib of some Python versions
\* passes over it, that of others lets the error out of rglob, past the
\* try/except of the loop body, and the walk of the whole pass ends there with
\* the exception on its way to the except clause of line 254
Descend ==
    /\ wpc = "tgtSub" /\ todo = {} /\ held = NoItem
    /\ \E d \in dirs :
        IF fs[TBase][d].kind = "dir"
        THEN /\ todo' = TargetListing(SBase, TBase, d)
             /\ dirs' = dirs \ {d}
             /\ wpc' = wpc
        ELSE \/ /\ todo' = {} /\ dirs' = dirs \ {d} /\ wpc' = wpc
             \/ /\ todo' = {} /\ dirs' = {} /\ wpc' = "raised"
    /\ UNCHANGED <<cfg, task, fs, fs0, tmps, pairIdx, held, sem, queue, wk, countVars,
                   dispatched, failed, passNo, errlog>>
    /\ PassOnly

\* what logger.error of line 255 records
PassError == <<"pass", 0>>

\* the pool has run every submitted item (pool.shutdown, or the exit of the with
\* block when the walk raised): the pass logs its counters, or the exception
\* at ERROR level, and releases the lock
FinishPass ==
    /\ wpc \in {"join", "raised"} /\ queue = <<>>
    /\ wk = {}
    /\ errlog' = IF wpc = "raised" THEN errlog \cup {PassError} ELSE errlog
    /\ wpc' = "idle"
    /\ passNo' = passNo + 1
    /\ UNCHANGED <<cfg, task, fs, fs0, tmps, pairIdx, todo, dirs, held, sem, queue, wk,
                   countVars, dispatched, failed>>
    /\ PassOnly


(***************************************************************************)
(* The pool threads: _wrapped_copy, _wrapped_delete and, under them, the   *)
(* retry wrapper around _atomic_copy and _safe_delete.                     *)
(***************************************************************************)
\* the first system call of an attempt
FirstStep(it) ==
    IF it.op = "delete" THEN "del"
    ELSE IF IsSymlink(fs[it.s][it.rel]) THEN "lnk_unlink"
    \* dst.parent.mkdir(...) of the target root itself does nothing
    ELSE IF Parent(it.rel) = ROOT THEN "mktemp" ELSE "mkdir"

\* a call a pool thread is running: the work item, the attempt, where it is
Attempt(it, n) == [item |-> it, step |-> FirstStep(it), att |-> n, k |-> 0, tmp |-> NoTmp]

\* an idle pool thread takes the head of the queue (the threads are
\* interchangeable: wk holds the calls that are running, not who runs them)
Take ==
    /\ Cardinality(wk) < cfg.workers /\ queue # <<>>
    /\ wk' = wk \cup {Attempt(Head(queue), 1)}
    /\ queue' = Tail(queue)
    /\ UNCHANGED <<cfg, task, fs, fs0, tmps, walkVars, sem, countVars, dispatched,
                   failed, passNo, errlog>>
    /\ PassOnly

\* a wrapper that counts the item it gives up on
AfterRaiseCounted(w) ==
    IF w.att < RetryTimes
    THEN /\ wk' = (wk \ {w}) \cup {Attempt(w.item, w.att + 1)}
         /\ UNCHANGED <<sem, failed, countVars>>
    ELSE /\ wk' = wk \ {w}
         /\ sem' = sem + 1
         /\ failed' = failed \cup {w.item}
         /\ IF w.item.op = "copy"
            THEN copyCount' = copyCount + 1 /\ UNCHANGED deleteCount
            ELSE deleteCount' = deleteCount + 1 /\ UNCHANGED copyCount
\* retry.wrapper after an attempt raised: sleep and call again, or re-raise, and
\* then the finally clause of _wrapped_copy/_wrapped_delete releases the permit
AfterRaise(w) ==
    IF w.att < RetryTimes
    THEN /\ wk' = (wk \ {w}) \cup {Attempt(w.item, w.att + 1)}
         /\ UNCHANGED <<sem, failed, countVars>>
    ELSE /\ wk' = wk \ {w}
         /\ sem' = sem + 1
         /\ failed' = failed \cup {w.item}
         /\ UNCHANGED countVars

\* a call that returns without releasing its permit
ReturnedHoldingPermit(w) ==
    /\ wk' = wk \ {w}
    /\ UNCHANGED <<sem, failed>>
    /\ IF w.item.op = "copy"
       THEN copyCount' = copyCount + 1 /\ UNCHANGED deleteCount
       ELSE deleteCount' = deleteCount + 1 /\ UNCHANGED copyCount
\* the call returned: the counter is incremented under _counter_lock, the permit released
Returned(w) ==
    /\ wk' = wk \ {w}
    /\ sem' = sem + 1
    /\ UNCHANGED failed
    /\ IF w.item.op = "copy"
       THEN copyCount' = copyCount + 1 /\ UNCHANGED deleteCount
       ELSE deleteCount' = deleteCount + 1 /\ UNCHANGED copyCount

Goto(w, st) ==
    /\ wk' = (wk \ {w}) \cup {[w EXCEPT !.step = st]}
    /\ UNCHANGED <<sem, failed, countVars>>

DirThere(t, dir) == dir = ROOT \/ fs[t][dir].kind = "dir"

\* dst.parent.mkdir(parents=True, exist_ok=True)
CopyMkdir(w) ==
    LET it == w.item
        dir == Parent(it.rel)
    IN  /\ w.step = "mkdir"
        /\ UNCHANGED tmps
        /\ IF DirThere(it.t, dir)
           THEN Goto(w, "mktemp") /\ UNCHANGED fs
           ELSE IF fs[it.t][dir].kind = "none"
           THEN fs' = [fs EXCEPT ![it.t][dir] = DirEnt] /\ Goto(w, "mktemp")
           ELSE AfterRaise(w) /\ UNCHANGED fs                 \* FileExistsError

\* a copy that opens the destination itself for writing
CopyTruncateDst(w) ==
    LET it == w.item
    IN  /\ w.step = "mktemp"
        /\ fs' = [fs EXCEPT ![it.t][it.rel] = FileEnt(<<>>, MNow)]
        /\ wk' = (wk \ {w}) \cup {[w EXCEPT !.step = "write"]}
        /\ UNCHANGED <<tmps, sem, failed, countVars>>
\* tempfile.NamedTemporaryFile(dir=dst.parent, delete=False)
CopyMktemp(w) ==
    LET it == w.item
        id == <<it.seq, w.att>>
    IN  /\ w.step = "mktemp"
        /\ UNCHANGED fs
        /\ IF DirThere(it.t, Parent(it.rel))
           THEN /\ tmps' = tmps \cup {[id |-> id, t |-> it.t, dir |-> Parent(it.rel),
                                       data |-> <<>>]}
                /\ wk' = (wk \ {w}) \cup {[w EXCEPT !.step = "write", !.tmp = id]}
                /\ UNCHANGED <<sem, failed, countVars>>
           ELSE AfterRaise(w) /\ UNCHANGED tmps               \* FileNotFoundError

\* shutil.copyfileobj(fsrc, tmp): one chunk; an unlinked temp file still takes the write
CopyWrite(w) ==
    LET it == w.item
        content == fs[it.s][it.rel].data
        k == w.k + 1
    IN  /\ w.step = "write"
        /\ tmps' = {IF r.id = w.tmp THEN [r EXCEPT !.data = SubSeq(content, 1, k)]
                    ELSE r : r \in tmps}
        /\ wk' = (wk \ {w}) \cup
                 {[w EXCEPT !.k = k,
                            !.step = IF k >= Len(content) THEN "replace" ELSE "write"]}
        /\ UNCHANGED <<fs, sem, failed, countVars>>

\* Path(tmp.name).replace(dst); when it raises, the finally clause unlinks the
\* temp file if it is still there
CopyReplace(w) ==
    LET it == w.item
    IN  /\ w.step = "replace"
        /\ IF ~HasTmp(w.tmp)
           THEN AfterRaise(w) /\ UNCHANGED <<fs, tmps>>       \* FileNotFoundError
           ELSE IF fs[it.t][it.rel].kind = "dir"
           THEN /\ tmps' = tmps \ {TmpOf(w.tmp)}              \* IsADirectoryError
                /\ AfterRaise(w)
                /\ UNCHANGED fs
           ELSE /\ fs' = [fs EXCEPT ![it.t][it.rel] = FileEnt(TmpOf(w.tmp).data, MNow)]
                /\ tmps' = tmps \ {TmpOf(w.tmp)}
                /\ Goto(w, "stat")

\* shutil.copystat(src, dst, follow_symlinks=False), best effort; then the call returns
CopyStat(w) ==
    LET it == w.item
    IN  /\ w.step = "stat"
        /\ fs' = IF fs[it.t][it.rel].kind = "file"
                 THEN [fs EXCEPT ![it.t][it.rel].mtime = fs[it.s][it.rel].mtime]
                 ELSE fs
        /\ Returned(w)
        /\ UNCHANGED tmps

\* the symlink branch: try: dst.unlink() except: pass
LinkUnlink(w) ==
    LET it == w.item
    IN  /\ w.step = "lnk_unlink"
        /\ fs' = IF fs[it.t][it.rel].kind \in {"file", "link"}
                 THEN [fs EXCEPT ![it.t][it.rel] = NoEnt]
                 ELSE fs
        /\ Goto(w, "lnk_create")
        /\ UNCHANGED tmps

\* os.symlink(target, dst); copystat of the link itself; return
LinkCreate(w) ==
    LET it == w.item
    IN  /\ w.step = "lnk_create"
        /\ UNCHANGED tmps
        /\ IF fs[it.t][it.rel].kind = "none" /\ DirThere(it.t, Parent(it.rel))
           THEN fs' = [fs EXCEPT ![it.t][it.rel] = fs[it.s][it.rel]] /\ Returned(w)
           ELSE AfterRaise(w) /\ UNCHANGED fs     \* FileExistsError, FileNotFoundError

\* _safe_delete: path.rmdir() if path.is_dir() else path.unlink()
DeleteOk(it) ==
    IF it.tmp # NoTmp THEN HasTmp(it.tmp)
    ELSE LET e == fs[it.t][it.rel]
         IN  IF IsDir(e)
             THEN /\ e.kind = "dir"                         \* rmdir of a symlink raises
                  /\ \A c \in ChildrenOf(it.rel) : fs[it.t][c].kind = "none"
                  /\ TmpsIn(it.t, it.rel) = {}
             ELSE e.kind \in {"file", "link"}

Delete(w) ==
    LET it == w.item
    IN  /\ w.step = "del"
        /\ IF DeleteOk(it)
           THEN /\ IF it.tmp # NoTmp
                   THEN tmps' = {r \in tmps : r.id # it.tmp} /\ UNCHANGED fs
                   ELSE fs' = [fs EXCEPT ![it.t][it.rel] = NoEnt] /\ UNCHANGED tmps
                /\ Returned(w)
           ELSE AfterRaise(w) /\ UNCHANGED <<fs, tmps>>

PoolStep(w) ==
    /\ \/ CopyMkdir(w) \/ CopyMktemp(w) \/ CopyWrite(w) \/ CopyReplace(w)
       \/ CopyStat(w) \/ LinkUnlink(w) \/ LinkCreate(w) \/ Delete(w)
    /\ UNCHANGED <<cfg, task, fs0, walkVars, queue, dispatched, passNo, errlog>>
    /\ PassOnly

(***************************************************************************)
(* The callers of sync() and the supervisor, at rest while a task's passes *)
(* are followed step by step.                                              *)
(***************************************************************************)
ParkedSync ==
    /\ lockHeld = FALSE /\ pending = FALSE /\ timerRef = 0
    /\ pc = <<>> /\ timersMade = 0 /\ events = 0 /\ pendingPaths = {} /\ owed = FALSE
ParkedSup ==
    /\ sup = "off" /\ child = "none" /\ exitcode = 0 /\ slept = 0
    /\ spawns = 0 /\ journal = <<>>
\* the worker's threads: 0 is the main thread, k > 0 the k-th reload Timer
WThreads == 0..MaxMods
\* the observers: 0 is cfg_obs, g > 0 the observer of the g-th task
ObsIds == 0..MaxLoads
ParkedWork ==
    /\ wthr = [th \in WThreads |-> "off"] /\ wcode = <<>>
    /\ observers = <<>> /\ tasks = <<>>
    /\ ostate = [o \in ObsIds |-> "new"]
    /\ cfgMods = 0 /\ cfgSeen = 0 /\ cfgRead = 0 /\ lateMod = 0 /\ rhandle = 0
    /\ ttimer = [g \in 1..MaxLoads |-> "none"]
    /\ loads = 0 /\ starting = [th \in WThreads |-> 0]
\* a constructed task with two sources and empty trees, no pass under way
ParkedPass ==
    /\ cfg = [sources |-> <<"s1", "s2">>, targets |-> <<"t1">>, exclude |-> <<>>,
              workers |-> 1]
    /\ fs = [r \in Roots |-> [p \in RelPaths |-> NoEnt]] /\ fs0 = fs
    /\ task = "ready" /\ tmps = {}
    /\ wpc = "idle" /\ pairIdx = 1 /\ todo = {} /\ dirs = {} /\ held = NoItem
    /\ sem = 0 /\ queue = <<>>
    /\ wk = {}
    /\ copyCount = 0 /\ deleteCount = 0
    /\ dispatched = <<>> /\ failed = {}
    /\ passNo = 0 /\ errlog = {}

(***************************************************************************)
(* The configurations and trees a task is started on.                      *)
(***************************************************************************)
Shapes == {
    [sources |-> <<"s1">>,       targets |-> <<"t1">>],                 \* zip
    [sources |-> <<"s1">>,       targets |-> <<"t1", "t2">>],           \* fan-out
    [sources |-> <<"s1", "s2">>, targets |-> <<"t1">>] }                \* fan-in
ExcludeChoices == { <<>>, << <<"d", "/", "*">> >>, << <<"a">> >> }

EmptyTree == [p \in RelPaths |-> NoEnt]
Tree(a, d, b) == [p \in RelPaths |-> IF p = PA THEN a ELSE IF p = PD THEN d ELSE b]
\* an entry exists only in a directory
WellFormed(tr) == \A p \in RelPaths :
    (tr[p].kind # "none" /\ Parent(p) # ROOT) => tr[Parent(p)].kind = "dir"
Entries(tr) == Cardinality({p \in RelPaths : tr[p].kind # "none"})

SrcTrees == {tr \in {Tree(a, d, b) :
    a \in {NoEnt, FileEnt(Bytes1, MSrc), LinkEnt("F", 0), LinkEnt("D", 0), LinkEnt("Z", 0)},
    d \in {NoEnt, DirEnt}, b \in {NoEnt, FileEnt(Bytes1, MSrc), LinkEnt("F", 0)}} : WellFormed(tr)}
Src2Trees == {Tree(a, NoEnt, NoEnt) : a \in {NoEnt, FileEnt(Bytes2, MSrc)}}
TgtTrees == {tr \in {Tree(a, d, b) :
    a \in {NoEnt, FileEnt(Bytes2, MOld), FileEnt(Bytes2, MNew), DirEnt},
    d \in {NoEnt, DirEnt}, b \in {NoEnt, FileEnt(Bytes2, MOld)}} : WellFormed(tr)}

\* a task not constructed yet, on trees of at most n entries in all
TaskTrees(n) ==
    /\ \E s1 \in SrcTrees, s2 \in Src2Trees, t1 \in TgtTrees :
          /\ Len(cfg.sources) < 2 => s2 = EmptyTree
          /\ Entries(s1) + Entries(s2) + Entries(t1) <= n
          /\ fs = [r \in Roots |-> CASE r = "s1" -> s1
                                     [] r = "s2" -> s2
                                     [] r = "t1" -> t1
                                     [] OTHER -> EmptyTree]
    /\ fs0 = fs
    /\ task = "new"
    /\ tmps = {}
    /\ wpc = "idle" /\ pairIdx = 1 /\ todo = {} /\ dirs = {} /\ held = NoItem
    /\ sem = 0 /\ queue = <<>>
    /\ wk = {}
    /\ copyCount = 0 /\ deleteCount = 0
    /\ dispatched = <<>> /\ failed = {}
    /\ passNo = 0 /\ errlog = {}

NewTask(n) == TaskTrees(n) /\ ParkedSync /\ ParkedSup /\ ParkedWork

InitPass ==
    /\ \E sh \in Shapes, ex \in ExcludeChoices, n \in WorkerChoices :
          cfg = [sources |-> sh.sources, targets |-> sh.targets,
                 exclude |-> ex, workers |-> n]
    /\ NewTask(MaxEntries)

NextPass ==
    \/ Construct
    \/ StartPass
    \/ Visit
    \/ Submit
    \/ Advance
    \/ Descend
    \/ FinishPass
    \/ Take
    \/ \E w \in wk : PoolStep(w)

SpecPass == InitPass /\ [][NextPass]_vars

(***************************************************************************)
(* SpecLoad: tasks of every combination of list lengths a configuration    *)
(* can give, on small trees, from construction through their passes.       *)
(***************************************************************************)
\* the trees a loaded task is started on hold at most this many entries in all
MaxLoadEntries == 1
SourceLists == {<<>>, <<"s1">>, <<"s1", "s2">>}
TargetLists == {<<>>, <<"t1">>, <<"t1", "t2">>, <<"t1", "t2", "t3">>}

InitLoad ==
    /\ \E ss \in SourceLists, ts \in TargetLists :
          cfg = [sources |-> ss, targets |-> ts, exclude |-> <<>>, workers |-> 1]
    /\ NewTask(MaxLoadEntries)

SpecLoad == InitLoad /\ [][NextPass]_vars

(***************************************************************************)
(* Properties of the passes (SpecPass).                                    *)
(***************************************************************************)
\* events have stopped and every triggered pass has finished
Quiescent == task = "ready" /\ wpc = "idle" /\ passNo >= 1
Excluded(p) == AnyMatch(p, cfg.exclude)
SourcesOf(t) == {pairs[i][1] : i \in {j \in DOMAIN pairs : pairs[j][2] = t}}
TargetRoots == {pairs[i][2] : i \in DOMAIN pairs}
\* a later pass than the first is running or has finished
SecondPass == passNo >= 2 \/ (passNo >= 1 /\ wpc # "idle")

\* C3 (mirror property): at quiescence, for every pair (source root, target root)
\* and every non-excluded regular file under the source root, the same relative
\* path under the target root is a file with identical content.
C3_Mirror ==
    Quiescent =>
        \A i \in DOMAIN pairs : \A p \in RelPaths :
            (fs[pairs[i][1]][p].kind = "file" /\ ~Excluded(p))
                => /\ IsFile(fs[pairs[i][2]][p])
                   /\ Hash(fs[pairs[i][2]][p]) = fs[pairs[i][1]][p].data

\* C4 (no-orphan property): at quiescence, every non-excluded entry under a
\* target root has an entry at the same relative path under a source root
\* mapped to that target.
C4_NoOrphan ==
    Quiescent =>
        \A t \in TargetRoots : \A p \in RelPaths :
            (LExists(fs[t][p]) /\ ~Excluded(p))
                => \E s \in SourcesOf(t) : LExists(fs[s][p])

\* C5 (idempotence): a pass that follows a completed pass, the source trees
\* unchanged, performs zero copies and zero deletions.
C5_Idempotent == SecondPass => (copyCount = 0 /\ deleteCount = 0)

\* the complete contents a file at path p of target t may hold: what it held when
\* the pass started, or what a source file mapped to it holds
CompleteContents(t, p) ==
    {fs0[t][q].data : q \in {r \in {p} : fs0[t][r].kind = "file"}}
    \cup {Hash(fs[s][p]) : s \in {r \in SourcesOf(t) : IsFile(fs[r][p])}}

\* C6 (atomicity): in every reachable state a regular file under its final
\* target path holds its complete previous content or the complete content of
\* the source, never a partial write.  A worker killed at any point leaves
\* the tree of some reachable state, so the invariant covers a crash mid-copy.
C6_Atomic ==
    \A t \in TargetRoots : \A p \in RelPaths :
        fs[t][p].kind = "file" => fs[t][p].data \in CompleteContents(t, p)
\* a copy is in the middle of writing its temp file while the destination still
\* holds its previous, different, content
C6_Witness ==
    \E w \in wk :
        /\ w.step = "write" /\ HasTmp(w.tmp)
        /\ TmpOf(w.tmp).data # fs[w.item.s][w.item.rel].data
        /\ fs[w.item.t][w.item.rel].kind = "file"
        /\ fs[w.item.t][w.item.rel].data # fs[w.item.s][w.item.rel].data

\* C7 (pair derivation): equal lengths are zipped, one source is fanned out, one
\* target is fanned in, and a task with any other combination of lengths is
\* rejected at construction and never runs a pass.
C7_PairDerivation ==
    LET ns == Len(cfg.sources)
        nt == Len(cfg.targets)
    IN  /\ (task = "ready" /\ ns = nt) =>
              pairs = [i \in 1..ns |-> <<cfg.sources[i], cfg.targets[i]>>]
        /\ (task = "ready" /\ ns = 1 /\ nt > 1) =>
              pairs = [i \in 1..nt |-> <<cfg.sources[1], cfg.targets[i]>>]
        /\ (task = "ready" /\ ns > 1 /\ nt = 1) =>
              pairs = [i \in 1..ns |-> <<cfg.sources[i], cfg.targets[1]>>]
        /\ (ns # nt /\ ns # 1 /\ nt # 1) =>
              (task # "ready" /\ wpc = "idle" /\ passNo = 0)

\* C8 (exclusion stability): no Copy and no Delete work item is dispatched for a
\* path that matches an exclude pattern, and the target entries that match one
\* are as they were when the pass started.
C8_Exclusion ==
    /\ \A i \in DOMAIN dispatched : ~Excluded(dispatched[i].rel)
    /\ \A t \in TargetRoots : \A p \in RelPaths :
          (Excluded(p) /\ LExists(fs0[t][p])) => fs[t][p] = fs0[t][p]
\* a pass that dispatched work has finished next to an excluded target entry
C8_Witness ==
    /\ Quiescent /\ dispatched # <<>>
    /\ \E t \in TargetRoots : \E p \in RelPaths :
          /\ Excluded(p) /\ LExists(fs[t][p])
          /\ \A s \in SourcesOf(t) : fs[s][p] # fs[t][p]

\* C9 (symlink preservation): after a completed pass, for every non-excluded
\* symlink under a source root the same relative path under the target root is a
\* symlink with the same link text.
C9_Symlink ==
    Quiescent =>
        \A i \in DOMAIN pairs : \A p \in RelPaths :
            (fs[pairs[i][1]][p].kind = "link" /\ ~Excluded(p))
                => /\ fs[pairs[i][2]][p].kind = "link"
                   /\ fs[pairs[i][2]][p].text = fs[pairs[i][1]][p].text

(***************************************************************************)
(* SpecSync: the threads that call SyncTask.sync on one task.              *)
(*                                                                         *)
(* start() calls sync() itself and only then starts one observer for each  *)
(* source; an observer's thread runs Handler.on_any_event for one event at *)
(* a time, and every threading.Timer runs sync() on a thread of its own.   *)
(* The body of a pass is one step here; SpecPass follows it step by step.  *)
(* A Timer fires at any moment after it was started: the code bounds no    *)
(* thread's progress by DEBOUNCE.                                          *)
(***************************************************************************)
\* events delivered to the task's handlers in all
MaxEvents == 3

StartThread == <<"start", 1>>
\* a task with two sources: start() creates one observer for each
Observers == {<<"obs", 1>>, <<"obs", 2>>}
TimerOf(k) == <<"timer", k>>
Timers == {TimerOf(k) : k \in 1..MaxEvents}
Threads == {StartThread} \cup Observers \cup Timers

\* where a thread goes when its outermost sync() returns
AfterSync(t) == IF t \in Observers THEN "restart" ELSE "done"

\* Timer.is_alive(): started, and neither finished nor cancelled
Alive(k) == k # 0 /\ pc[TimerOf(k)] \in {"waiting", "sync", "pend", "body", "check", "clear"}

InPass(t) == pc[t] = "body"

LockFreeAlways == TRUE
\* what self._lock.acquire(False) finds
LockFree == ~lockHeld

SyncOnly == UNCHANGED <<passVars, supVars, workVars>>

\* the watchdog observer hands an event to Handler.on_any_event, which adds the
\* path to _pending_paths under _paths_lock and calls sync()
Deliver(t) ==
    /\ t \in Observers /\ pc[t] = "idle"
    /\ pc[StartThread] = "done"
    /\ events < MaxEvents
    /\ events' = events + 1
    /\ pendingPaths' = pendingPaths \cup {events + 1}
    /\ owed' = (owed \/ lockHeld)
    /\ pc' = [pc EXCEPT ![t] = "sync"]
    /\ UNCHANGED <<lockHeld, pending, timerRef, timersMade>>
    /\ SyncOnly

\* sync(): the change list is copied and cleared under _paths_lock (lines
\* 195-197); if not self._lock.acquire(False)
TryLock(t) ==
    /\ pc[t] = "sync"
    /\ pendingPaths' = {}
    /\ IF LockFree
       THEN /\ lockHeld' = TRUE
            /\ owed' = FALSE
            /\ pc' = [pc EXCEPT ![t] = "body"]
       ELSE /\ pc' = [pc EXCEPT ![t] = "pend"]
            /\ UNCHANGED <<lockHeld, owed>>
    /\ UNCHANGED <<pending, timerRef, timersMade, events>>
    /\ SyncOnly

\* the rejected call: self._pending = True; return
SetPending(t) ==
    /\ pc[t] = "pend"
    /\ pending' = TRUE
    /\ pc' = [pc EXCEPT ![t] = AfterSync(t)]
    /\ UNCHANGED <<lockHeld, timerRef, timersMade, events, owed>>
    /\ UNCHANGED pendingPaths
    /\ SyncOnly

\* the pass runs to its end; finally: self._lock.release()
Release(t) ==
    /\ pc[t] = "body"
    /\ lockHeld' = FALSE
    /\ pc' = [pc EXCEPT ![t] = "check"]
    /\ UNCHANGED <<pending, timerRef, timersMade, events, owed>>
    /\ UNCHANGED pendingPaths
    /\ SyncOnly

\* if self._pending:
CheckPending(t) ==
    /\ pc[t] = "check"
    /\ pc' = [pc EXCEPT ![t] = IF pending THEN "clear" ELSE AfterSync(t)]
    /\ UNCHANGED <<lockHeld, pending, timerRef, timersMade, events, owed>>
    /\ UNCHANGED pendingPaths
    /\ SyncOnly

\* self._pending = False; self.sync()
ClearPending(t) ==
    /\ pc[t] = "clear"
    /\ pending' = FALSE
    /\ pc' = [pc EXCEPT ![t] = "sync"]
    /\ UNCHANGED <<lockHeld, timerRef, timersMade, events, owed>>
    /\ UNCHANGED pendingPaths
    /\ SyncOnly

\* on_any_event after sync(): if self.task._timer and self.task._timer.is_alive()
TimerCheck(t) ==
    /\ t \in Observers /\ pc[t] = "restart"
    /\ pc' = [pc EXCEPT ![t] = IF Alive(timerRef) THEN "cancel" ELSE "create"]
    /\ UNCHANGED <<lockHeld, pending, timerRef, timersMade, events, owed>>
    /\ UNCHANGED pendingPaths
    /\ SyncOnly

\* self.task._timer.cancel(), on whatever the handle refers to by now: a Timer
\* that waits never calls its function, one whose function runs is not stopped
TimerCancel(t) ==
    /\ t \in Observers /\ pc[t] = "cancel"
    /\ LET k == TimerOf(timerRef)
       IN  pc' = [pc EXCEPT ![t] = "create",
                            ![k] = CASE pc[k] = "waiting" -> "cancelled"
                                     [] pc[k] = "made"    -> "revoked"
                                     [] OTHER             -> pc[k]]
    /\ UNCHANGED <<lockHeld, pending, timerRef, timersMade, events, owed>>
    /\ UNCHANGED pendingPaths
    /\ SyncOnly

\* self.task._timer = threading.Timer(DEBOUNCE, self.task.sync)
TimerCreate(t) ==
    /\ t \in Observers /\ pc[t] = "create"
    /\ timersMade' = timersMade + 1
    /\ timerRef' = timersMade + 1
    /\ pc' = [pc EXCEPT ![t] = "start", ![TimerOf(timersMade + 1)] = "made"]
    /\ UNCHANGED <<lockHeld, pending, events, owed>>
    /\ UNCHANGED pendingPaths
    /\ SyncOnly

\* self.task._timer.start(), on whatever the handle refers to by now; starting
\* a Timer a second time raises RuntimeError out of the handler, and whether
\* the observer's thread survives that is the watchdog library's business
TimerStart(t) ==
    /\ t \in Observers /\ pc[t] = "start"
    /\ LET k == TimerOf(timerRef)
       IN  CASE pc[k] = "made" ->
                  pc' = [pc EXCEPT ![t] = "idle", ![k] = "waiting"]
             [] pc[k] = "revoked" ->
                  pc' = [pc EXCEPT ![t] = "idle", ![k] = "cancelled"]
             [] OTHER ->
                  \E next \in {"idle", "dead"} : pc' = [pc EXCEPT ![t] = next]
    /\ UNCHANGED <<lockHeld, pending, timerRef, timersMade, events, owed>>
    /\ UNCHANGED pendingPaths
    /\ SyncOnly

\* the Timer's interval is over: its thread calls sync()
TimerFire(t) ==
    /\ t \in Timers /\ pc[t] = "waiting"
    /\ pc' = [pc EXCEPT ![t] = "sync"]
    /\ UNCHANGED <<lockHeld, pending, timerRef, timersMade, events, owed>>
    /\ UNCHANGED pendingPaths
    /\ SyncOnly

InitSync ==
    /\ lockHeld = FALSE /\ pending = FALSE /\ timerRef = 0
    /\ pc = [t \in Threads |-> CASE t = StartThread -> "sync"
                                 [] t \in Observers -> "idle"
                                 [] OTHER -> "none"]
    /\ timersMade = 0 /\ events = 0 /\ pendingPaths = {} /\ owed = FALSE
    /\ ParkedPass /\ ParkedSup /\ ParkedWork

NextSync ==
    \/ \E t \in Threads : Deliver(t)
    \/ \E t \in Threads : TryLock(t)
    \/ \E t \in Threads : SetPending(t)
    \/ \E t \in Threads : Release(t)
    \/ \E t \in Threads : CheckPending(t)
    \/ \E t \in Threads : ClearPending(t)
    \/ \E t \in Threads : TimerCheck(t)
    \/ \E t \in Threads : TimerCancel(t)
    \/ \E t \in Threads : TimerCreate(t)
    \/ \E t \in Threads : TimerStart(t)
    \/ \E t \in Threads : TimerFire(t)

SpecSync == InitSync /\ [][NextSync]_vars

\* C1 (at-most-one pass): at most one thread is inside the pass body, between
\* acquiring and releasing the task's pass lock, at any time.
C1_OnePass == Cardinality({t \in Threads : InPass(t)}) <= 1
\* a thread is inside the pass body while the call of another was turned away
C1_Witness == \E t \in Threads, u \in Threads : InPass(t) /\ pc[u] = "pend"

\* no pass running, no sync() call or handler in progress, no live debounce timer
TaskIdle ==
    /\ ~lockHeld
    /\ pc[StartThread] = "done"
    /\ \A t \in Observers : pc[t] \in {"idle", "dead"}
    /\ \A t \in Timers : pc[t] \in {"none", "made", "revoked", "cancelled", "done"}

\* C2 (no lost wake-up): if an event is delivered while a pass is running,
\* another pass begins after that pass releases the lock and before the task
\* becomes idle.
C2_NoLostWakeup == TaskIdle => ~owed

(***************************************************************************)
(* SpecSup: supervise() and the worker process it spawns.                  *)
(***************************************************************************)
\* workers the supervisor starts in all
MaxSpawns == 3
\* RESTART_DELAY, in seconds
RESTART_DELAY == 5
\* Process.exitcode: 0, an error exit, killed by a signal
ExitCodes == {0, 1, -9}

SupOnly == UNCHANGED <<passVars, syncVars, workVars>>

\* p = Process(target=sync_worker, name="sync_worker"); p.start()
Spawn ==
    /\ sup = "spawn" /\ spawns < MaxSpawns
    /\ child' = "running"
    /\ spawns' = spawns + 1
    /\ journal' = Append(journal, <<"spawn", spawns + 1>>)
    /\ sup' = "join"
    /\ UNCHANGED <<exitcode, slept>>
    /\ SupOnly

\* the worker process ends: sync_worker returned or raised, or it was killed
ChildExit ==
    /\ child = "running"
    /\ \E c \in ExitCodes :
        /\ exitcode' = c
        /\ journal' = Append(journal, <<"exit", c>>)
    /\ child' = "exited"
    /\ UNCHANGED <<sup, slept, spawns>>
    /\ SupOnly

\* p.join() returns
JoinChild ==
    /\ sup = "join" /\ child = "exited"
    /\ sup' = "log"
    /\ UNCHANGED <<child, exitcode, slept, spawns, journal>>
    /\ SupOnly

\* root_logger.error(f"... code={p.exitcode} ..."), whatever the exit code
LogExit ==
    /\ sup = "log"
    /\ journal' = Append(journal, <<"log", exitcode>>)
    /\ sup' = "sleep"
    /\ slept' = 0
    /\ UNCHANGED <<child, exitcode, spawns>>
    /\ SupOnly

\* a second of time.sleep(RESTART_DELAY) passes
Tick ==
    /\ sup = "sleep" /\ slept < RESTART_DELAY
    /\ slept' = slept + 1
    /\ UNCHANGED <<sup, child, exitcode, spawns, journal>>
    /\ SupOnly

\* a sleep that returns at once
WakeAtOnce ==
    /\ sup = "sleep"
    /\ journal' = Append(journal, <<"slept", slept>>)
    /\ sup' = "spawn"
    /\ UNCHANGED <<child, exitcode, slept, spawns>>
    /\ SupOnly
\* time.sleep(RESTART_DELAY) returns; the loop starts over
Wake ==
    /\ sup = "sleep" /\ slept = RESTART_DELAY
    /\ journal' = Append(journal, <<"slept", slept>>)
    /\ sup' = "spawn"
    /\ UNCHANGED <<child, exitcode, slept, spawns>>
    /\ SupOnly

\* KeyboardInterrupt in the parent: logged, sys.exit(0)
Interrupt ==
    /\ sup \in {"spawn", "join", "log", "sleep"}
    /\ sup' = "stopped"
    /\ UNCHANGED <<child, exitcode, slept, spawns, journal>>
    /\ SupOnly

InitSup ==
    /\ sup = "spawn" /\ child = "none" /\ exitcode = 0 /\ slept = 0
    /\ spawns = 0 /\ journal = <<>>
    /\ ParkedPass /\ ParkedSync /\ ParkedWork

\* the supervisor's own steps and the passing of time
SupStep == Spawn \/ JoinChild \/ LogExit \/ Tick \/ Wake

NextSup ==
    \/ Spawn
    \/ ChildExit
    \/ JoinChild
    \/ LogExit
    \/ Tick
    \/ Wake
    \/ Interrupt

\* the supervisor is a running loop and time passes; nothing makes the worker exit
SpecSup == InitSup /\ [][NextSup]_vars /\ WF_vars(SupStep)

\* every start of a worker but the first comes right after a full delay, which
\* comes right after the log line of the exit that came before it
RestartOrder ==
    \A i \in DOMAIN journal :
        (journal[i][1] = "spawn" /\ i > 1) =>
            /\ i > 3
            /\ journal[i - 1] = <<"slept", RESTART_DELAY>>
            /\ journal[i - 2][1] = "log"
            /\ journal[i - 3] = <<"exit", journal[i - 2][2]>>
\* a worker that exited with a nonzero code or was killed, the supervisor running
FailedExit == child = "exited" /\ exitcode # 0 /\ sup # "stopped"
\* a new worker runs; or the supervisor was interrupted, or has started all the
\* workers the model lets it start
Respawned ==
    \/ child = "running"
    \/ sup = "stopped"
    \/ (sup = "spawn" /\ spawns = MaxSpawns)

\* C10 (supervised restart): when the worker exits with a nonzero code or
\* crashes, the supervisor logs the exit, waits RESTART_DELAY and then spawns a
\* new worker; no worker is spawned before the previous one has exited and the
\* delay has been taken.
C10_Restart == [](RestartOrder /\ (child = "running" => sup \in {"join", "stopped"})) /\ (FailedExit ~> Respawned)
\* a worker was killed, the exit logged, the delay taken and a new worker started
C10_Witness ==
    \E i \in DOMAIN journal :
        /\ i > 3 /\ journal[i][1] = "spawn"
        /\ journal[i - 3] = <<"exit", -9>>
        /\ child = "running"

\* C11 (restart only after an abnormal exit): once a worker has exited with
\* code 0, the supervisor starts no further worker.
C11_NoRespawnAfterZero ==
    \A i \in DOMAIN journal : \A j \in DOMAIN journal :
        (journal[i] = <<"exit", 0>> /\ i < j) => journal[j][1] # "spawn"

(***************************************************************************)
(* SpecWorker: one worker process.  Its main thread runs sync_worker():    *)
(* it starts cfg_obs, calls reload_config() and sleeps in a loop until a   *)
(* signal arrives.  The ConfigReloader handler runs on the thread of       *)
(* cfg_obs and starts a Timer whose thread runs reload_config() again.     *)
(* The configuration holds one task with one source.  A loop over one of   *)
(* the module-level lists is one step; a pass of a task is not followed    *)
(* here (SpecPass and SpecSync do that).                                   *)
(***************************************************************************)
WorkOnly == UNCHANGED <<passVars, syncVars, supVars>>

MainThread == 0
ReloadTimers == 1..MaxMods
CfgObs == 0
TaskGens == 1..MaxLoads
SeqSet(q) == {q[i] : i \in DOMAIN q}

\* the process has neither returned from sync_worker nor been killed
WorkerAlive == wthr[MainThread] \notin {"exited", "killed"}
\* where the main thread is while inside the try block of sync_worker
TryPcs == {"init", "append", "stop", "join", "clear", "load", "register", "loop"}
\* reload Timers created so far
RMade == Cardinality({k \in ReloadTimers : wthr[k] # "none"})

\* cfg_obs = PollingObserver(); cfg_obs.schedule(...); cfg_obs.start()
CfgObsStart ==
    /\ wthr[MainThread] = "init"
    /\ ostate' = [ostate EXCEPT ![CfgObs] = "running"]
    /\ wthr' = [wthr EXCEPT ![MainThread] = "append"]
    /\ UNCHANGED <<wcode, observers, tasks, cfgMods, cfgSeen, cfgRead, lateMod, rhandle,
                   ttimer, loads, starting>>
    /\ WorkOnly

\* observers.append(cfg_obs); reload_config() is entered
CfgObsAppend ==
    /\ wthr[MainThread] = "append"
    /\ observers' = Append(observers, CfgObs)
    /\ wthr' = [wthr EXCEPT ![MainThread] = "stop"]
    /\ UNCHANGED <<wcode, tasks, ostate, cfgMods, cfgSeen, cfgRead, lateMod, rhandle,
                   ttimer, loads, starting>>
    /\ WorkOnly

\* the observers after for o in observers: o.stop()
AfterStop == [o \in ObsIds |->
                IF o \in SeqSet(observers) /\ ostate[o] = "running"
                THEN "stopped" ELSE ostate[o]]
\* for o in observers: o.join() returns: the join of an observer nobody has
\* stopped does not
CanJoin == \A o \in SeqSet(observers) : ostate[o] # "running"
AfterJoin == [o \in ObsIds |->
                IF o \in SeqSet(observers) /\ ostate[o] = "stopped"
                THEN "joined" ELSE ostate[o]]

\* reload_config: for o in observers: o.stop()
StopAll(th) ==
    /\ WorkerAlive /\ wthr[th] = "stop"
    /\ ostate' = AfterStop
    /\ wthr' = [wthr EXCEPT ![th] = "join"]
    /\ UNCHANGED <<wcode, observers, tasks, cfgMods, cfgSeen, cfgRead, lateMod, rhandle,
                   ttimer, loads, starting>>
    /\ WorkOnly

\* reload_config: for o in observers: o.join()
JoinAll(th) ==
    /\ WorkerAlive /\ wthr[th] = "join"
    /\ CanJoin
    /\ ostate' = AfterJoin
    /\ wthr' = [wthr EXCEPT ![th] = "clear"]
    /\ UNCHANGED <<wcode, observers, tasks, cfgMods, cfgSeen, cfgRead, lateMod, rhandle,
                   ttimer, loads, starting>>
    /\ WorkOnly

\* reload_config: observers.clear(); tasks.clear()
ClearLists(th) ==
    /\ WorkerAlive /\ wthr[th] = "clear"
    /\ observers' = <<>> /\ tasks' = <<>>
    /\ wthr' = [wthr EXCEPT ![th] = "load"]
    /\ UNCHANGED <<wcode, ostate, cfgMods, cfgSeen, cfgRead, lateMod, rhandle, ttimer,
                   loads, starting>>
    /\ WorkOnly

\* reload_config: the config text is read; task = SyncTask(tcfg);
\* tasks.append(task); task.start() runs and returns its started observer
LoadTask(th) ==
    /\ WorkerAlive /\ wthr[th] = "load" /\ loads < MaxLoads
    /\ cfgRead' = cfgMods
    /\ loads' = loads + 1
    /\ tasks' = Append(tasks, loads + 1)
    /\ ostate' = [ostate EXCEPT ![loads + 1] = "running"]
    /\ starting' = [starting EXCEPT ![th] = loads + 1]
    /\ wthr' = [wthr EXCEPT ![th] = "register"]
    /\ UNCHANGED <<wcode, observers, cfgMods, cfgSeen, lateMod, rhandle, ttimer>>
    /\ WorkOnly

\* reload_config: observers.append(o); reload_config returns
RegisterTask(th) ==
    /\ WorkerAlive /\ wthr[th] = "register"
    /\ observers' = Append(observers, starting[th])
    /\ starting' = [starting EXCEPT ![th] = 0]
    /\ wthr' = [wthr EXCEPT ![th] = IF th = MainThread THEN "loop" ELSE "done"]
    /\ UNCHANGED <<wcode, tasks, ostate, cfgMods, cfgSeen, cfgRead, lateMod, rhandle,
                   ttimer, loads>>
    /\ WorkOnly

\* somebody saves config.json
Modify ==
    /\ WorkerAlive /\ cfgMods < MaxMods
    /\ cfgMods' = cfgMods + 1
    /\ lateMod' = IF wthr[MainThread] = "loop" THEN cfgMods + 1 ELSE lateMod
    /\ UNCHANGED <<wthr, wcode, observers, tasks, ostate, cfgSeen, cfgRead, rhandle,
                   ttimer, loads, starting>>
    /\ WorkOnly

\* the polling of cfg_obs finds config.json changed: ConfigReloader.on_modified
\* cancels the Timer it holds if that is alive, creates a new one and starts it
Notice ==
    /\ WorkerAlive /\ ostate[CfgObs] = "running" /\ cfgSeen < cfgMods
    /\ cfgSeen' = cfgMods
    /\ wthr' = [th \in WThreads |->
                  IF th = RMade + 1 THEN "waiting"
                  ELSE IF th = rhandle /\ th # MainThread /\ wthr[th] = "waiting"
                       THEN "cancelled" ELSE wthr[th]]
    /\ rhandle' = RMade + 1
    /\ UNCHANGED <<wcode, observers, tasks, ostate, cfgMods, cfgRead, lateMod, ttimer,
                   loads, starting>>
    /\ WorkOnly

\* DEBOUNCE is over: the Timer's thread calls reload_config()
ReloadFire(th) ==
    /\ WorkerAlive /\ th \in ReloadTimers /\ wthr[th] = "waiting"
    /\ wthr' = [wthr EXCEPT ![th] = "stop"]
    /\ UNCHANGED <<wcode, observers, tasks, ostate, cfgMods, cfgSeen, cfgRead, lateMod,
                   rhandle, ttimer, loads, starting>>
    /\ WorkOnly

\* an event under the task's source: Handler.on_any_event, on the thread of the
\* task's observer, leaves the task's debounce Timer started
TaskEvent(g) ==
    /\ WorkerAlive /\ ostate[g] = "running"
    /\ ttimer' = [ttimer EXCEPT ![g] = "waiting"]
    /\ UNCHANGED <<wthr, wcode, observers, tasks, ostate, cfgMods, cfgSeen, cfgRead,
                   lateMod, rhandle, loads, starting>>
    /\ WorkOnly

\* the task's debounce Timer fires: its thread calls task.sync()
TaskTimerFire(g) ==
    /\ WorkerAlive /\ ttimer[g] = "waiting"
    /\ ttimer' = [ttimer EXCEPT ![g] = "fired"]
    /\ UNCHANGED <<wthr, wcode, observers, tasks, ostate, cfgMods, cfgSeen, cfgRead,
                   lateMod, rhandle, loads, starting>>
    /\ WorkOnly

\* SIGINT: KeyboardInterrupt is raised in the main thread, logged by the except
\* clause, and the finally clause is entered
Sigint ==
    /\ wthr[MainThread] \in TryPcs
    /\ wthr' = [wthr EXCEPT ![MainThread] = "fstop"]
    /\ UNCHANGED <<wcode, observers, tasks, ostate, cfgMods, cfgSeen, cfgRead, lateMod,
                   rhandle, ttimer, loads, starting>>
    /\ WorkOnly

\* sync_worker's finally: for o in observers: o.stop()
FinallyStop ==
    /\ wthr[MainThread] = "fstop"
    /\ ostate' = AfterStop
    /\ wthr' = [wthr EXCEPT ![MainThread] = "fjoin"]
    /\ UNCHANGED <<wcode, observers, tasks, cfgMods, cfgSeen, cfgRead, lateMod, rhandle,
                   ttimer, loads, starting>>
    /\ WorkOnly

\* sync_worker's finally: for o in observers: o.join(); sync_worker returns and
\* the process exits with code 0
FinallyJoin ==
    /\ wthr[MainThread] = "fjoin"
    /\ CanJoin
    /\ ostate' = AfterJoin
    /\ wthr' = [wthr EXCEPT ![MainThread] = "exited"]
    /\ wcode' = <<0>>
    /\ UNCHANGED <<observers, tasks, cfgMods, cfgSeen, cfgRead, lateMod, rhandle,
                   ttimer, loads, starting>>
    /\ WorkOnly

\* SIGTERM: no handler is installed, the default action ends the process
Sigterm ==
    /\ WorkerAlive
    /\ wthr' = [wthr EXCEPT ![MainThread] = "killed"]
    /\ wcode' = <<-15>>
    /\ UNCHANGED <<observers, tasks, ostate, cfgMods, cfgSeen, cfgRead, lateMod,
                   rhandle, ttimer, loads, starting>>
    /\ WorkOnly

InitWorker ==
    /\ wthr = [th \in WThreads |-> IF th = MainThread THEN "init" ELSE "none"]
    /\ wcode = <<>>
    /\ observers = <<>> /\ tasks = <<>>
    /\ ostate = [o \in ObsIds |-> "new"]
    /\ cfgMods = 0 /\ cfgSeen = 0 /\ cfgRead = 0 /\ lateMod = 0 /\ rhandle = 0
    /\ ttimer = [g \in TaskGens |-> "none"]
    /\ loads = 0 /\ starting = [th \in WThreads |-> 0]
    /\ ParkedPass /\ ParkedSync /\ ParkedSup

\* reload_config() on thread th
ReloadStep(th) ==
    StopAll(th) \/ JoinAll(th) \/ ClearLists(th) \/ LoadTask(th) \/ RegisterTask(th)
\* the main thread's steps
MainStep ==
    CfgObsStart \/ CfgObsAppend \/ ReloadStep(MainThread) \/ FinallyStop \/ FinallyJoin
\* a reload Timer's thread: the interval runs out, then reload_config()
TimerStep(th) == ReloadFire(th) \/ ReloadStep(th)

NextWorker ==
    \/ CfgObsStart
    \/ CfgObsAppend
    \/ \E th \in WThreads : StopAll(th)
    \/ \E th \in WThreads : JoinAll(th)
    \/ \E th \in WThreads : ClearLists(th)
    \/ \E th \in WThreads : LoadTask(th)
    \/ \E th \in WThreads : RegisterTask(th)
    \/ Modify
    \/ Notice
    \/ \E th \in WThreads : ReloadFire(th)
    \/ \E g \in TaskGens : TaskEvent(g)
    \/ \E g \in TaskGens : TaskTimerFire(g)
    \/ Sigint
    \/ FinallyStop
    \/ FinallyJoin
    \/ Sigterm

\* every thread of a live process is scheduled and every timer runs out;
\* nothing makes a modification, an event or a signal happen
SpecWorker ==
    /\ InitWorker /\ [][NextWorker]_vars
    /\ WF_vars(MainStep)
    /\ \A th \in ReloadTimers : WF_vars(TimerStep(th))
    /\ WF_vars(Notice)
    /\ \A g \in TaskGens : WF_vars(TaskTimerFire(g))

WorkerEnded == wthr[MainThread] \in {"exited", "killed"}

\* C12 (graceful worker shutdown): a worker that has ended on SIGINT or SIGTERM
\* has stopped and joined every watcher it started and has exit code 0.
C12_GracefulShutdown ==
    WorkerEnded =>
        /\ wcode = <<0>>
        /\ \A o \in ObsIds : ostate[o] \in {"new", "joined"}

\* the worker has completed its initial load and config.json was modified after
\* that to a text no reload_config() has read
ReloadOwed == wthr[MainThread] = "loop" /\ cfgRead < lateMod
\* reload_config() has read the newest text and started the tasks built from it;
\* or the worker is shutting down, or has built all the tasks the model lets it
Reloaded ==
    \/ wthr[MainThread] # "loop"
    \/ (cfgRead >= lateMod /\ \A th \in WThreads : wthr[th] \notin {"load", "register"})
    \/ loads = MaxLoads

\* C13 (hot reload): in a running worker whose initial load has completed,
\* every modification of config.json leads to a reload_config() that stops the
\* old watchers and starts the tasks of the new configuration.
C13_HotReload == ReloadOwed ~> Reloaded

\* C14 (task teardown on reload): no debounce Timer of a task fires, starting a
\* pass of that task, once reload_config() has removed the task from the list.
C14_Teardown ==
    [][\A g \in TaskGens :
          (ttimer[g] = "waiting" /\ ttimer'[g] = "fired") => g \in SeqSet(tasks)]_vars

\* the ERROR record of a work item that failed for good
ItemError(it) == <<"item", it.seq>>

\* C15 (per-file failure handling): when a pass has completed, every work item
\* that failed after its retries has an ERROR record in the log, and every
\* other submitted item was executed.
C15_FailureHandling ==
    (task = "ready" /\ wpc = "idle" /\ passNo >= 1) =>
        /\ \A it \in failed : ItemError(it) \in errlog
        /\ queue = <<>> /\ wk = {}

\* the work items of the current pass, by operation, that have finished
\* without error
FinishedOk(op) ==
    {i \in DOMAIN dispatched :
        /\ dispatched[i].op = op
        /\ dispatched[i] \notin failed
        /\ \A j \in DOMAIN queue : queue[j] # dispatched[i]
        /\ \A w \in wk : w.item # dispatched[i]}

\* C16 (counters): from the start of a pass to its completion report the copy
\* counter is the number of this pass's Copy items that finished without error
\* and the delete counter that of its Delete items; failed items and items of
\* earlier passes are not counted.
C16_Counters ==
    /\ copyCount = Cardinality(FinishedOk("copy"))
    /\ deleteCount = Cardinality(FinishedOk("delete"))
\* a second pass has completed with an item that failed and a counter above zero
C16_Witness ==
    /\ Quiescent /\ passNo = 2
    /\ failed # {} /\ copyCount + deleteCount >= 1

(***************************************************************************)
(* SpecPassLive: the passes of SpecPass with every thread scheduled.       *)
(***************************************************************************)
\* the thread running sync(), inside a pass
WalkerStep == Visit \/ Submit \/ Advance \/ Descend \/ FinishPass
\* the pool's threads
PoolRun == Take \/ \E w \in wk : PoolStep(w)

\* the walker and the pool threads are scheduled; nothing makes a pass start
SpecPassLive == InitPass /\ [][NextPass]_vars /\ WF_vars(WalkerStep) /\ WF_vars(PoolRun)

\* work items submitted to the pool and not finished
InFlight == Len(queue) + Cardinality(wk)
Permits == SemFactor * cfg.workers

\* C17 (backpressure): at most 2 * workers items are queued or running at any
\* moment of a pass, every permit taken is either with an unfinished item or
\* back in the semaphore, and every pass that has started comes to its end.
C17_Backpressure ==
    /\ [](/\ InFlight <= Permits
          /\ wpc # "idle" => sem + InFlight = Permits)
    /\ (wpc # "idle") ~> (wpc = "idle")
\* the walker is blocked in sem.acquire() with every permit taken
C17_Witness == wpc # "idle" /\ held # NoItem /\ sem = 0 /\ InFlight = Permits

(***************************************************************************)
(* SpecCrash: a task's passes in a worker that is killed at any moment,    *)
(* with the supervisor that starts the worker again and the task's start() *)
(* in the new worker.                                                      *)
(***************************************************************************)
\* the pattern cleanup_tmp_files hands to rglob, matched against an entry's name
CleanupPattern == <<"*", ".", "s", "y", "n", "c", "_", "t", "m", "p", "*">>

\* the worker is killed (SIGKILL, a crash): its threads are gone at whatever
\* point they had reached, the files stay as they are; a temp file left behind
\* keeps its name, told apart here from the names later workers draw
Kill ==
    /\ task = "ready" /\ child = "running"
    /\ task' = "killed"
    /\ tmps' = {IF r.id[2] <= RetryTimes
                THEN [r EXCEPT !.id = <<r.id[1], r.id[2] + RetryTimes * spawns>>]
                ELSE r : r \in tmps}
    /\ wpc' = "idle" /\ pairIdx' = 1 /\ todo' = {} /\ dirs' = {} /\ held' = NoItem
    /\ sem' = 0 /\ queue' = <<>> /\ wk' = {}
    /\ copyCount' = 0 /\ deleteCount' = 0
    /\ dispatched' = <<>> /\ failed' = {} /\ errlog' = {}
    /\ child' = "exited" /\ exitcode' = -9
    /\ journal' = Append(journal, <<"exit", -9>>)
    /\ UNCHANGED <<cfg, fs, fs0, passNo, sup, slept, spawns>>
    /\ UNCHANGED <<syncVars, workVars>>

\* the new worker loads the configuration: SyncTask(tcfg), then task.start(),
\* which begins with cleanup_tmp_files(): every entry under a target root whose
\* name matches the pattern is unlinked
Restart ==
    /\ task = "killed" /\ child = "running"
    /\ task' = "ready"
    /\ tmps' = {r \in tmps : ~(r.t \in {pairs[i][2] : i \in DOMAIN pairs}
                               /\ FnMatch(TmpName, CleanupPattern))}
    /\ UNCHANGED <<cfg, fs, fs0, walkVars, sem, queue, wk, countVars, dispatched,
                   failed, passNo, errlog>>
    /\ PassOnly

InitCrash ==
    /\ \E n \in WorkerChoices :
          cfg = [sources |-> <<"s1">>, targets |-> <<"t1">>, exclude |-> <<>>,
                 workers |-> n]
    /\ TaskTrees(MaxEntries)
    /\ sup = "join" /\ child = "running" /\ exitcode = 0 /\ slept = 0
    /\ spawns = 1 /\ journal = << <<"spawn", 1>> >>
    /\ ParkedSync /\ ParkedWork

NextCrash ==
    \/ Construct
    \/ StartPass
    \/ Visit
    \/ Submit
    \/ Advance
    \/ Descend
    \/ FinishPass
    \/ Take
    \/ \E w \in wk : PoolStep(w)
    \/ Kill
    \/ JoinChild
    \/ LogExit
    \/ Tick
    \/ Wake
    \/ Spawn
    \/ Restart

SpecCrash == InitCrash /\ [][NextCrash]_vars

\* C18 (crash recovery of temp files): when a task is started in a new worker,
\* cleanup_tmp_files() leaves none of the temp files that a killed worker's
\* copies left under the target roots.
C18_CrashRecovery == [][Restart => tmps' = {}]_vars

\* C19 (no delete-then-copy): within one pass no Copy work item is dispatched
\* for a target path after a Delete work item for that same target path.
C19_NoDeleteThenCopy ==
    \A i \in DOMAIN dispatched : \A j \in DOMAIN dispatched :
        (i < j /\ dispatched[i].op = "delete" /\ dispatched[j].op = "copy")
            => ~(dispatched[i].t = dispatched[j].t /\ dispatched[i].rel = dispatched[j].rel)

\* C20 (one debounce timer): at most one Timer of the task is started and has
\* neither fired nor been cancelled, whatever the handlers of its observers do
\* to the timer handle.
C20_OneTimer == Cardinality({t \in Timers : pc[t] = "waiting"}) <= 1

\* thread t takes a step of a sync() call that found the pass lock busy
RejectedStep(t) ==
    \/ pc[t] = "sync" /\ pc'[t] = "pend"
    \/ pc[t] = "pend" /\ pc'[t] # "pend"

\* C21 (a rejected sync() only sets the flag): a sync() call that finds the
\* pass lock busy leaves the changed-paths set, the counters and the lock as
\* they are.
C21_RejectedSyncFrame ==
    [][\A t \in Threads :
          RejectedStep(t) =>
              /\ pendingPaths' = pendingPaths
              /\ countVars' = countVars
              /\ lockHeld' = lockHeld]_vars

\* no thread is executing inside sync()
NobodyInSync == \A t \in Threads : pc[t] \notin {"sync", "pend", "body", "check", "clear"}

\* C22 (pending flag at rest): whenever no thread is executing inside sync(),
\* the task's pending flag is false.
C22_PendingAtRest == NobodyInSync => ~pending

\* C23 (no delete of the pass's own files): no Delete work item is dispatched
\* for the temp file of a copy of the same pass, nor for a target path that a
\* Copy work item dispatched earlier in the pass writes.
C23_NoDeleteOfOwnFiles ==
    \A j \in DOMAIN dispatched :
        dispatched[j].op = "delete" =>
            /\ dispatched[j].tmp = NoTmp
            /\ \A i \in DOMAIN dispatched :
                  (i < j /\ dispatched[i].op = "copy")
                      => ~(dispatched[i].t = dispatched[j].t
                           /\ dispatched[i].rel = dispatched[j].rel)

====
